---- MODULE Spec2Model ----
(***************************************************************************)
(* The Dig trait of digger (src/lib.rs): value_for_name, the single-step   *)
(* lookup an adapter supplies, and dig, the dotted-path walk derived from  *)
(* it, together with the serde_json::Value adapter.                        *)
(*                                                                         *)
(* A selector is a sequence of one-character strings.  Nodes are the ids   *)
(* of a fixed store of JSON values, so that "the same node" is equality of *)
(* ids (dig returns a borrow into the tree, not a copy).                   *)
(***************************************************************************)
EXTENDS Integers, Sequences, FiniteSets, TLC

\* ------------------------------------------------------------------ bounds
\* Longest selector enumerated exhaustively over Alphabet.
MaxLen == 3
\* Longest suffix u enumerated for dig(t, s + "." + u).
MaxSuffix == 1
\* Most '.' characters inserted one after another into a selector.
MaxDots == 2

\* ------------------------------------------------------------- characters
Alphabet == {".", "$", "a", "b"}

foo == <<"f", "o", "o">>
bar == <<"b", "a", "r">>
baz == <<"b", "a", "z">>
quux == <<"q", "u", "u", "x">>
rust == <<"r", "u", "s", "t">>
dot == <<".">>
sigil == <<"$">>

\* ------------------------------------------------------------ JSON values
\* Option::None; every node id is >= 1.
None == 0

Obj(f) == [kind |-> "object", fields |-> f, elems |-> <<>>]
Arr(e) == [kind |-> "array", fields |-> <<>>, elems |-> e]
Leaf(k) == [kind |-> k, fields |-> <<>>, elems |-> <<>>]

\* json!({"foo": {"bar": {"baz": true}}}), the tree of the unit tests.
TestTree == 1
TestLeaf == 4
\* {"foo": [1, 2, 3]}
ArrTree == 5
\* {"foo": {"$": {"bar": "hello there"}}}
SigilTree == 9
SigilLeaf == 12
\* A tree over the short names "a", "b", "$", "" and "a.b".
SmallTree == 13

Store ==
     (1 :> Obj(foo :> 2))
  @@ (2 :> Obj(bar :> 3))
  @@ (3 :> Obj(baz :> 4))
  @@ (4 :> Leaf("bool"))
  @@ (5 :> Obj(foo :> 6))
  @@ (6 :> Arr(<<7, 8>>))
  @@ (7 :> Leaf("number"))
  @@ (8 :> Leaf("number"))
  @@ (9 :> Obj(foo :> 10))
  @@ (10 :> Obj(sigil :> 11))
  @@ (11 :> Obj(bar :> 12))
  @@ (12 :> Leaf("string"))
  @@ (13 :> Obj((<<"a">> :> 14) @@ (<<"b">> :> 15) @@ (sigil :> 16)
                @@ (<<>> :> 17) @@ (<<"a", ".", "b">> :> 18)))
  @@ (14 :> Obj((<<"a">> :> 19) @@ (<<"b">> :> 20) @@ (sigil :> 21)))
  @@ (15 :> Arr(<<22>>))
  @@ (16 :> Obj((<<"a">> :> 23) @@ (<<"b">> :> 24)))
  @@ (17 :> Obj(<<"a">> :> 25))
  @@ (18 :> Leaf("number"))
  @@ (19 :> Leaf("null"))
  @@ (20 :> Leaf("string"))
  @@ (21 :> Obj(<<"b">> :> 26))
  @@ (22 :> Leaf("null"))
  @@ (23 :> Leaf("number"))
  @@ (24 :> Leaf("bool"))
  @@ (25 :> Leaf("string"))
  @@ (26 :> Leaf("number"))

Nodes == DOMAIN Store

\* Map::get: the child stored under exactly the key name, if any.
ObjGet(o, name) ==
  IF name \in DOMAIN Store[o].fields THEN Store[o].fields[name] ELSE None

\* A lookup that also indexes arrays by a one-digit name.
ValueForNameIndexing(n, name) ==
  CASE Store[n].kind = "object" -> ObjGet(n, name)
    [] Store[n].kind = "array" /\ name = <<"0">> /\ Len(Store[n].elems) >= 1
         -> Store[n].elems[1]
    [] OTHER -> None

\* impl Dig for Value: value_for_name.
ValueForName(n, name) ==
  IF Store[n].kind = "object" THEN ObjGet(n, name) ELSE None

\* --------------------------------------------------------------- selectors
\* str::split('.'): the segments between the '.' characters, empty ones
\* included; the empty string splits into one empty segment.
RECURSIVE SplitAcc(_, _, _)
SplitAcc(s, cur, acc) ==
  IF s = <<>> THEN Append(acc, cur)
  ELSE IF Head(s) = "." THEN SplitAcc(Tail(s), <<>>, Append(acc, cur))
  ELSE SplitAcc(Tail(s), Append(cur, Head(s)), acc)

Split(s) == SplitAcc(s, <<>>, <<>>)

\* A skip_while predicate that treats no segment as the sigil.
IsSigilNever(seg) == FALSE

\* The skip_while predicate: |&s| s == "$".
IsSigil(seg) == seg = sigil

\* A filter predicate that keeps every segment.
KeepSegAll(seg) == TRUE

\* A filter predicate that also drops "$" segments.
KeepSegNoSigil(seg) == seg # <<>> /\ seg # sigil

\* The filter predicate: |&s| !s.is_empty().
KeepSeg(seg) == seg # <<>>

\* A fold step that keeps the last node reached when the lookup fails.
FoldStepPartial(acc, name) ==
  IF acc = None THEN None
  ELSE IF ValueForName(acc, name) = None THEN acc
  ELSE ValueForName(acc, name)

\* The fold closure: Some(d) => d.value_for_name(name), None => None.
FoldStep(acc, name) ==
  IF acc # None THEN ValueForName(acc, name) ELSE None

\* All strings over Alphabet of length at most n.
StringsUpTo(n) == UNION {[1..k -> Alphabet] : k \in 0..n}

\* The selectors of the unit tests and of the documentation.
ConcreteSelectors ==
  { foo \o dot \o bar \o dot \o baz,
    sigil \o dot \o foo \o dot \o bar \o dot \o baz,
    foo \o dot \o bar \o dot \o quux,
    rust \o dot \o bar \o dot \o baz,
    foo \o dot \o <<"0">>,
    <<"0">>,
    foo \o dot \o sigil \o dot \o bar,
    sigil \o dot \o sigil \o dot \o foo,
    foo,
    <<"a", ".", "$", ".", "b">>,
    <<"$", ".", "$", ".", "a">> }

Selectors == StringsUpTo(MaxLen) \cup ConcreteSelectors

Suffixes == StringsUpTo(MaxSuffix) \cup {bar, <<"$", ".", "a">>}

\* ------------------------------------------------------------------- state
VARIABLES
  root,      \* self: the node dig is called on
  selector,  \* the selector of the current call
  pc,        \* "start", "iter", "done", "probed"
  segs,      \* the segments split has still to yield
  skipping,  \* SkipWhile's flag: the leading run is still being skipped
  res,       \* the fold's accumulator; the result once pc = "done"
  calls,     \* the value_for_name calls of the current dig, in order
  probe,     \* a direct call value_for_name(root, selector)
  kind,      \* how the selector was made: "base", "sigil1", "sigil2",
             \* "suffix", "dots"
  sel0,      \* the selector of the first call
  res0,      \* the result of the first call
  arg,       \* the suffix u when kind = "suffix"
  ndots,     \* the number of '.' inserted when kind = "dots"
  inRun      \* some '.' was inserted before the end of the leading "$" run

vars == <<root, selector, pc, segs, skipping, res, calls, probe, kind,
          sel0, res0, arg, ndots, inRun>>

NoProbe == [node |-> None, name |-> <<>>, ret |-> None]

Init ==
  /\ root \in Nodes
  /\ selector \in Selectors
  /\ pc = "start"
  /\ segs = <<>>
  /\ skipping = TRUE
  /\ res = None
  /\ calls = <<>>
  /\ probe = NoProbe
  /\ kind = "base"
  /\ sel0 = <<>>
  /\ res0 = None
  /\ arg = <<>>
  /\ ndots = 0
  /\ inRun = FALSE

caller == <<root, selector, probe, kind, sel0, res0, arg, ndots, inRun>>

\* dig is entered: split the selector, fold from Some(self).
Call ==
  /\ pc = "start"
  /\ pc' = "iter"
  /\ segs' = Split(selector)
  /\ skipping' = TRUE
  /\ res' = root
  /\ calls' = <<>>
  /\ UNCHANGED caller

\* A skip that strips one leading "$" segment only.
SkipSigilOnce ==
  /\ pc = "iter"
  /\ segs # <<>>
  /\ skipping
  /\ Head(segs) = sigil
  /\ segs' = Tail(segs)
  /\ skipping' = FALSE
  /\ UNCHANGED <<pc, res, calls>>
  /\ UNCHANGED <<root, selector, probe, kind, sel0, res0, arg, ndots, inRun>>

\* skip_while drops a segment of the leading run.
SkipSigil ==
  /\ pc = "iter"
  /\ segs # <<>>
  /\ skipping
  /\ IsSigil(Head(segs))
  /\ segs' = Tail(segs)
  /\ UNCHANGED <<pc, skipping, res, calls>>
  /\ UNCHANGED caller

\* The segment gets past skip_while (which then stops skipping for good).
Passes(seg) == ~(skipping /\ IsSigil(seg))

\* take_while in place of filter: the walk stops at an empty segment.
DropEmptyStop ==
  /\ pc = "iter"
  /\ segs # <<>>
  /\ ~(skipping /\ Head(segs) = sigil)
  /\ Head(segs) = <<>>
  /\ segs' = <<>>
  /\ skipping' = FALSE
  /\ UNCHANGED <<pc, res, calls>>
  /\ UNCHANGED <<root, selector, probe, kind, sel0, res0, arg, ndots, inRun>>

\* filter drops an empty segment.
DropEmpty ==
  /\ pc = "iter"
  /\ segs # <<>>
  /\ Passes(Head(segs))
  /\ ~KeepSeg(Head(segs))
  /\ segs' = Tail(segs)
  /\ skipping' = FALSE
  /\ UNCHANGED <<pc, res, calls>>
  /\ UNCHANGED caller

\* fold applies the closure to Some(d): one call of value_for_name.
FoldSome ==
  /\ pc = "iter"
  /\ segs # <<>>
  /\ Passes(Head(segs))
  /\ KeepSeg(Head(segs))
  /\ res # None
  /\ res' = FoldStep(res, Head(segs))
  /\ calls' = Append(calls, [node |-> res, name |-> Head(segs),
                             ret |-> ValueForName(res, Head(segs))])
  /\ segs' = Tail(segs)
  /\ skipping' = FALSE
  /\ UNCHANGED pc
  /\ UNCHANGED caller

\* fold applies the closure to None: no call.
FoldNone ==
  /\ pc = "iter"
  /\ segs # <<>>
  /\ Passes(Head(segs))
  /\ KeepSeg(Head(segs))
  /\ res = None
  /\ res' = FoldStep(res, Head(segs))
  /\ segs' = Tail(segs)
  /\ skipping' = FALSE
  /\ UNCHANGED <<pc, calls>>
  /\ UNCHANGED caller

\* The iterator is exhausted: dig returns the accumulator.
Return ==
  /\ pc = "iter"
  /\ segs = <<>>
  /\ pc' = "done"
  /\ UNCHANGED <<segs, skipping, res, calls>>
  /\ UNCHANGED caller

\* The caller calls value_for_name(self, selector) directly.
Probe ==
  /\ pc = "done"
  /\ kind = "base"
  /\ probe' = [node |-> root, name |-> selector,
               ret |-> ValueForName(root, selector)]
  /\ pc' = "probed"
  /\ UNCHANGED <<root, selector, segs, skipping, res, calls, kind, sel0,
                 res0, arg, ndots, inRun>>

\* The caller keeps the first call's selector and result and digs again
\* with selector s.
Again(s, k) ==
  /\ pc = "done"
  /\ selector' = s
  /\ kind' = k
  /\ sel0' = IF kind = "base" THEN selector ELSE sel0
  /\ res0' = IF kind = "base" THEN res ELSE res0
  /\ pc' = "start"
  /\ UNCHANGED <<root, segs, skipping, res, calls, probe>>

\* dig(t, "$." + s)
PrependSigil ==
  /\ kind = "base"
  /\ Again(sigil \o dot \o selector, "sigil1")
  /\ UNCHANGED <<arg, ndots, inRun>>

\* dig(t, "$.$." + s)
PrependTwoSigils ==
  /\ kind = "base"
  /\ Again(sigil \o dot \o sigil \o dot \o selector, "sigil2")
  /\ UNCHANGED <<arg, ndots, inRun>>

\* dig(t, s + "." + u)
AppendSuffix ==
  /\ kind = "base"
  /\ \E u \in Suffixes :
       /\ Again(selector \o dot \o u, "suffix")
       /\ arg' = u
  /\ UNCHANGED <<ndots, inRun>>

\* The number of characters the leading run of "$" segments takes up:
\* "$.$. ... .$" with k segments is 2k - 1 characters long.
RECURSIVE RunSegs(_)
RunSegs(ss) ==
  IF ss # <<>> /\ Head(ss) = sigil THEN 1 + RunSegs(Tail(ss)) ELSE 0

RunEnd(s) == IF RunSegs(Split(s)) = 0 THEN 0 ELSE 2 * RunSegs(Split(s)) - 1

\* Position p of s (after its first p characters) lies between two
\* segments, before the first segment or after the last one.
AtBoundary(s, p) ==
  IF p = 0 \/ p = Len(s) THEN TRUE ELSE s[p] = "." \/ s[p + 1] = "."

\* dig(t, s with one more '.' at a segment boundary p)
InsertDot ==
  /\ kind \in {"base", "dots"}
  /\ ndots < MaxDots
  /\ \E p \in 0..Len(selector) :
       /\ AtBoundary(selector, p)
       /\ Again(SubSeq(selector, 1, p) \o dot
                  \o SubSeq(selector, p + 1, Len(selector)), "dots")
       /\ inRun' = (inRun \/ p < RunEnd(selector))
  /\ ndots' = ndots + 1
  /\ UNCHANGED arg

Next ==
  \/ Call
  \/ SkipSigil
  \/ DropEmpty
  \/ FoldSome
  \/ FoldNone
  \/ Return
  \/ Probe
  \/ PrependSigil
  \/ PrependTwoSigils
  \/ AppendSuffix
  \/ InsertDot

Spec == Init /\ [][Next]_vars

\* ------------------------------------------------------ claim vocabulary
\* The kept segments as the specification words them: the '.'-split
\* segments, the leading run of "$" segments dropped, then every empty
\* segment dropped.
RECURSIVE DropSigils(_)
DropSigils(ss) ==
  IF ss # <<>> /\ Head(ss) = sigil THEN DropSigils(Tail(ss)) ELSE ss

NonEmptySegs(ss) == SelectSeq(ss, LAMBDA x : x # <<>>)

Kept(s) == NonEmptySegs(DropSigils(Split(s)))

\* value_for_name applied once per name, left to right, starting at n.
RECURSIVE Walk(_, _)
Walk(n, names) ==
  IF names = <<>> THEN n
  ELSE IF n = None THEN None
  ELSE Walk(ValueForName(n, Head(names)), Tail(names))

Chars(s) == {s[i] : i \in 1..Len(s)}

\* A single name: non-empty, not the sigil, without '.'.
IsName(n) == n # <<>> /\ n # sigil /\ "." \notin Chars(n)

CallNames == [i \in 1..Len(calls) |-> calls[i].name]

FooBarBaz == foo \o dot \o bar \o dot \o baz

\* ------------------------------------------------------------------ claims
\* C1: when dig(t, s) returns a present result it is the node reached from
\* t by applying value_for_name once per kept segment of s, in order; on
\* the test tree "foo.bar.baz" and "$.foo.bar.baz" both return the leaf.
C1_Reached ==
  pc = "done" =>
    /\ res # None => res = Walk(root, Kept(selector))
    /\ root = TestTree /\ selector \in {FooBarBaz, sigil \o dot \o FooBarBaz}
         => res = TestLeaf

C1_Witness ==
  /\ pc = "done"
  /\ root = TestTree
  /\ selector = sigil \o dot \o FooBarBaz
  /\ res = TestLeaf
  /\ Len(calls) = 3

\* C2: dig(x, "") and dig(x, "$") return x itself and make no call of
\* value_for_name.
C2_Identity ==
  pc = "done" /\ selector \in {<<>>, sigil} => res = root /\ calls = <<>>

C2_Witness ==
  /\ pc = "done"
  /\ selector = sigil
  /\ root = SmallTree
  /\ res = SmallTree
  /\ calls = <<>>

\* C3: for a selector s that does not start with the character '$',
\* dig(t, "$." + s) and dig(t, "$.$." + s) equal dig(t, s).
C3_SigilTransparency ==
  /\ pc = "done"
  /\ kind \in {"sigil1", "sigil2"}
  /\ (sel0 = <<>> \/ Head(sel0) # "$")
  => res = res0

C3_Witness ==
  /\ pc = "done"
  /\ kind = "sigil2"
  /\ root = SmallTree
  /\ sel0 = <<"a", ".", "b">>
  /\ selector = <<"$", ".", "$", ".", "a", ".", "b">>
  /\ res = 20
  /\ res0 = 20

\* C4 as claimed: for every selector, inserting extra '.' characters
\* anywhere does not change the result of dig.
C4_AnyDots ==
  pc = "done" /\ kind = "dots" => res = res0

\* C4 amended: inserting any number of extra '.' characters does not change
\* the result of dig provided none of them is inserted before the end of
\* the selector's leading run of "$" segments (anywhere, when the first
\* segment is not "$").
C4_DotsAfterRun ==
  pc = "done" /\ kind = "dots" /\ ~inRun => res = res0

C4_Witness ==
  /\ pc = "done"
  /\ kind = "dots"
  /\ ~inRun
  /\ ndots = 2
  /\ root = SmallTree
  /\ sel0 = <<"$", ".", "a">>
  /\ selector = <<"$", ".", ".", "a", ".">>
  /\ res = 14
  /\ res0 = 14

\* C5 as claimed: for any string n without '.', dig(t, n) equals
\* value_for_name(t, n).
C5_AnyString ==
  pc = "probed" /\ "." \notin Chars(selector) => res = probe.ret

\* C5 amended: for any name n that is non-empty, is not "$" and contains no
\* '.', dig(t, n) equals value_for_name(t, n).
C5_SingleStep ==
  pc = "probed" /\ IsName(selector) => res = probe.ret

C5_Witness ==
  /\ pc = "probed"
  /\ root = SmallTree
  /\ selector = <<"a">>
  /\ probe.name = <<"a">>
  /\ res = 14
  /\ probe.ret = 14

\* C6: for names a and b (non-empty, not "$", without '.'),
\* dig(t, a + "." + b) is not present when dig(t, a) is not present, and
\* otherwise value_for_name(c, b) for the node c that dig(t, a) returned.
C6_Composition ==
  pc = "done" /\ kind = "suffix" /\ IsName(sel0) /\ IsName(arg)
  => res = IF res0 = None THEN None ELSE ValueForName(res0, arg)

C6_Witness ==
  /\ pc = "done"
  /\ kind = "suffix"
  /\ root = SmallTree
  /\ sel0 = <<"a">>
  /\ arg = <<"b">>
  /\ res0 = 14
  /\ res = 20

\* C7: if value_for_name returns not present at some kept segment of s,
\* dig(t, s) is not present (no partially resolved node); and when dig(t, s)
\* is not present, so is dig(t, s + "." + u) for every u.
C7_ShortCircuit ==
  pc = "done" =>
    /\ (\E k \in 1..Len(Kept(selector)) :
          LET c == Walk(root, SubSeq(Kept(selector), 1, k - 1))
          IN  c # None /\ ValueForName(c, Kept(selector)[k]) = None)
         => res = None
    /\ (\E i \in 1..Len(calls) : calls[i].ret = None) => res = None
    /\ kind = "suffix" /\ res0 = None => res = None
    /\ root = TestTree
         /\ selector \in {rust \o dot \o bar \o dot \o baz,
                          foo \o dot \o bar \o dot \o quux}
         => res = None

C7_Witness ==
  /\ pc = "done"
  /\ kind = "suffix"
  /\ root = SmallTree
  /\ sel0 = <<"b", ".", "a">>
  /\ res0 = None
  /\ arg = <<"a">>
  /\ selector = <<"b", ".", "a", ".", "a">>
  /\ res = None
  /\ Len(calls) = 2
  /\ calls[2].ret = None

\* C8: value_for_name of a node that is not an object is not present for
\* every name, integer literals included; of an object it is the child
\* stored under exactly that key, or not present; dig on {"foo": [1, 2, 3]}
\* with "foo.0" is not present.
C8_Lookup(c) ==
  IF Store[c.node].kind = "object"
  THEN IF c.name \in DOMAIN Store[c.node].fields
       THEN c.ret = Store[c.node].fields[c.name]
       ELSE c.ret = None
  ELSE c.ret = None

C8_ScalarOpacity ==
  /\ \A i \in 1..Len(calls) : C8_Lookup(calls[i])
  /\ pc = "probed" => C8_Lookup(probe)
  /\ pc = "done" /\ root = ArrTree /\ selector = foo \o dot \o <<"0">>
       => res = None

C8_Witness ==
  /\ pc = "done"
  /\ root = ArrTree
  /\ selector = foo \o dot \o <<"0">>
  /\ Len(calls) = 2
  /\ Store[calls[2].node].kind = "array"
  /\ calls[2].name = <<"0">>
  /\ res = None

\* C9: only the leading run of "$" segments is the sigil; a "$" segment
\* after a segment that is not "$" is looked up as a child name:
\* "foo.$.bar" resolves foo, then "$", then bar, and "$.$.foo" only foo.
LiteralSigils(s) ==
  {i \in 1..Len(Split(s)) :
     /\ Split(s)[i] = sigil
     /\ \E j \in 1..(i - 1) : Split(s)[j] # sigil}

C9_LeadingRunOnly ==
  pc = "done" =>
    /\ res # None =>
         Cardinality({i \in 1..Len(calls) : calls[i].name = sigil})
           = Cardinality(LiteralSigils(selector))
    /\ root = SigilTree /\ selector = foo \o dot \o sigil \o dot \o bar
         => CallNames = <<foo, sigil, bar>> /\ res = SigilLeaf
    /\ root = SigilTree /\ selector = sigil \o dot \o sigil \o dot \o foo
         => CallNames = <<foo>> /\ res = 10

C9_Witness ==
  /\ pc = "done"
  /\ root = SigilTree
  /\ selector = foo \o dot \o sigil \o dot \o bar
  /\ CallNames = <<foo, sigil, bar>>
  /\ res = SigilLeaf

\* C10: every name dig passes to value_for_name is non-empty and has no
\* '.', the calls are the kept segments in order, at most one each, and
\* after a call has returned not present dig makes no further call.
C10_CallDiscipline ==
  /\ \A i \in 1..Len(calls) :
       /\ calls[i].name # <<>>
       /\ "." \notin Chars(calls[i].name)
       /\ i < Len(calls) => calls[i].ret # None
  /\ pc \in {"iter", "done", "probed"} =>
       /\ Len(calls) <= Len(Kept(selector))
       /\ CallNames = SubSeq(Kept(selector), 1, Len(calls))

C10_Witness ==
  /\ pc = "done"
  /\ root = TestTree
  /\ selector = rust \o dot \o bar \o dot \o baz
  /\ Len(calls) = 1
  /\ calls[1].ret = None
  /\ res = None

====
